---- MODULE Spec2Model ----
(***************************************************************************)
(* CancerCommonTool: signature scoring (correlation_calc.py), correlation  *)
(* of candidate kinases with the signature, and the affinity-weighted drug *)
(* score (inhibitor_score.py), in the order master_function (main.py)      *)
(* calls them.                                                             *)
(*                                                                         *)
(* Numbers.  A Python float is modelled as an exact rational n/d in lowest *)
(* terms, or as NaN; a cell of a table may also hold a string.  Sums,      *)
(* products and reciprocals are exact; the two irrational operations, the  *)
(* power x ** 0.25 and the square root inside np.corrcoef, are rounded     *)
(* down to a fixed number of steps per unit (PowScale, PearsonScale), as   *)
(* the float operations round to 53 bits.  The rounding of the sums and    *)
(* products themselves is not modelled.                                    *)
(***************************************************************************)
EXTENDS Integers, Sequences, FiniteSets, TLC

VARIABLES
    pc,           \* the call the run is about to make
    ranks,        \* ssgsea_score: the rank matrix (genes in rows, samples in columns)
    df_cms_list,  \* ssgsea_score: the gene list of the signature
    score_new,    \* ssgsea_score(ranks, df_cms_list, use_old_formula=False), once called
    score_old,    \* ssgsea_score(ranks, df_cms_list, use_old_formula=True), once called
    df_kin,       \* the candidate gene list, column 'Name'
    df_coh,       \* the cohort table: samples in rows, genes in columns
    signatures,   \* column 'CMS4' of the signature table, one value per sample
    results,      \* the correlation table, one record per row
    aff_file,     \* the affinity table as it was read (never written: a history variable)
    df_aff,       \* the affinity table object master_function holds
    df_aff_red,   \* the table preprocess_affinity_data returned
    genes,        \* calculate_drug_scores: the list made of the intersection
    scores,       \* the table calculate_drug_scores returned: drug -> Score
    raised,       \* the exception that ended the run, or "none"
    called        \* the formula variants ssgsea_score has been called with

vars == <<pc, ranks, df_cms_list, score_new, score_old, df_kin, df_coh, signatures,
          results, aff_file, df_aff, df_aff_red, genes, scores, raised, called>>

(***************************************************************************)
(* Values                                                                  *)
(***************************************************************************)
Abs(i) == IF i < 0 THEN -i ELSE i

RECURSIVE GCD(_, _)
GCD(a, b) == IF b = 0 THEN a ELSE GCD(b, a % b)

\* the float n/d, in lowest terms, d > 0
Num(n, d) ==
    LET g == GCD(Abs(n), d)
    IN  [kind |-> "num", n |-> n \div g, d |-> d \div g, s |-> ""]

Int2Num(i) == [kind |-> "num", n |-> i, d |-> 1, s |-> ""]

NaN == [kind |-> "nan", n |-> 0, d |-> 1, s |-> ""]

Str(x) == [kind |-> "str", n |-> 0, d |-> 1, s |-> x]

Zero == Int2Num(0)

IsNaN(x) == x.kind = "nan"

IsNum(x) == x.kind = "num"

\* float arithmetic: NaN in, NaN out (0 * NaN is NaN)
Add(a, b) == IF IsNaN(a) \/ IsNaN(b) THEN NaN ELSE Num(a.n * b.d + b.n * a.d, a.d * b.d)

Sub(a, b) == IF IsNaN(a) \/ IsNaN(b) THEN NaN ELSE Num(a.n * b.d - b.n * a.d, a.d * b.d)

Mul(a, b) == IF IsNaN(a) \/ IsNaN(b) THEN NaN ELSE Num(a.n * b.n, a.d * b.d)

\* 1/x for a float x that is not 0
Recip(x) ==
    IF IsNaN(x) THEN NaN
    ELSE IF x.n > 0 THEN Num(x.d, x.n) ELSE Num(-x.d, -x.n)

Inf == [kind |-> "inf", n |-> 1, d |-> 0, s |-> ""]

\* a / b for floats a, b, not infinite: 0/0 is NaN, x/0 is infinite (numpy)
Div(a, b) ==
    IF IsNaN(a) \/ IsNaN(b) THEN NaN
    ELSE IF b.n = 0 THEN (IF a.n = 0 THEN NaN ELSE Inf)
    ELSE Mul(a, Recip(b))

\* the sum of a list of floats
RECURSIVE Sum(_)
Sum(v) == IF v = <<>> THEN Zero ELSE Add(Head(v), Sum(Tail(v)))

\* the largest q in lo..hi with q^k <= m (k = 2 or 4; lo^k <= m)
RECURSIVE RootBetween(_, _, _, _)
RootBetween(m, k, lo, hi) ==
    IF lo >= hi THEN lo
    ELSE LET mid == (lo + hi + 1) \div 2
             p   == IF k = 2 THEN mid * mid ELSE mid * mid * mid * mid
         IN  IF p <= m THEN RootBetween(m, k, mid, hi) ELSE RootBetween(m, k, lo, mid - 1)

Range(f) == {f[i] : i \in DOMAIN f}

\* the lists over S of length at most n
RECURSIVE SeqsUpTo(_, _)
SeqsUpTo(S, n) ==
    IF n = 0 THEN {<<>>}
    ELSE LET shorter == SeqsUpTo(S, n - 1)
         IN  shorter \cup {Append(q, x) : q \in {r \in shorter : Len(r) = n - 1}, x \in S}

\* the orders in which the set S can be listed
RECURSIVE Orders(_)
Orders(S) ==
    IF S = {} THEN {<<>>}
    ELSE UNION {{<<x>> \o q : q \in Orders(S \ {x})} : x \in S}

(***************************************************************************)
(* inhibitor_score.py: preprocess_affinity_data                            *)
(*                                                                         *)
(* A table is [columns |-> the column names, data |-> the list of rows],   *)
(* a row being a function from the column names to cells.  The affinity    *)
(* table has the drug names in column 'Unnamed: 0'.                        *)
(***************************************************************************)
DrugColumn == "Unnamed: 0"

\* df.replace(np.nan, 0): every NaN cell becomes 0
replace_nan(df) ==
    [df EXCEPT !.data = [i \in DOMAIN df.data |->
        [c \in df.columns |-> IF IsNaN(df.data[i][c]) THEN Zero ELSE df.data[i][c]]]]

\* the lambda without its test x != 0
reciprocal_zero_too(x) ==
    IF IsNaN(x) THEN NaN
    ELSE IF IsNum(x) THEN (IF x.n = 0 THEN Inf ELSE Recip(x))
    ELSE x

\* lambda x: 1/x if isinstance(x, (int, float)) and x != 0 else x
\* (NaN is a float that differs from 0)
reciprocal(x) ==
    IF IsNaN(x) THEN NaN
    ELSE IF IsNum(x) /\ x.n # 0 THEN Recip(x)
    ELSE x

\* df.applymap(lambda ...): a new table, the caller's is left as it is
applymap(df) ==
    [df EXCEPT !.data = [i \in DOMAIN df.data |->
        [c \in df.columns |-> reciprocal(df.data[i][c])]]]

\* a preprocess_affinity_data that writes the reciprocals into the caller's table
preprocess_inplace_all(df) == applymap(replace_nan(df))

\* what preprocess_affinity_data leaves in the caller's table (line 17, inplace=True)
preprocess_inplace(df) == replace_nan(df)

\* what preprocess_affinity_data returns (lines 20, 22)
preprocess_affinity_data(df) == applymap(replace_nan(df))

(***************************************************************************)
(* inhibitor_score.py: calculate_drug_scores                               *)
(*                                                                         *)
(* The correlation table is a list of rows [Gene, Correlation,             *)
(* Normalized_Correlation]; the score table is a function from the drug    *)
(* names (its index) to the Score.                                         *)
(***************************************************************************)
\* set(results['Gene']).intersection(set(df_aff_red.columns)), line 34-36
shared_targets(df, res) == {res[i].Gene : i \in DOMAIN res} \cap df.columns

\* the first rows of the table by position, not by label
RECURSIVE loc_rows_positional(_, _)
loc_rows_positional(res, order) ==
    IF order = <<>> \/ res = <<>> THEN <<>>
    ELSE <<Head(res)>> \o loc_rows_positional(Tail(res), Tail(order))

\* results.set_index('Gene').loc[genes]: for each label of the list, in the
\* order of the list, every row that has it as its key
RECURSIVE loc_rows(_, _)
loc_rows(res, order) ==
    IF order = <<>> THEN <<>>
    ELSE SelectSeq(res, LAMBDA r : r.Gene = Head(order)) \o loc_rows(res, Tail(order))

\* only the drugs with a nonzero cell in a column of the list
ordered_aff_rows_overlapping(df, order) ==
    {i \in DOMAIN df.data : \E k \in DOMAIN order : df.data[i][order[k]] # Zero}

\* the rows of df_aff_red.loc[:, genes]: all of them, whatever the list is
ordered_aff_rows(df, order) == DOMAIN df.data

\* a sum that skips the NaN values
RECURSIVE dot_row_skipna(_, _, _)
dot_row_skipna(row, order, rel) ==
    IF order = <<>> THEN Zero
    ELSE LET v == Head(rel).Normalized_Correlation
             rest == dot_row_skipna(row, Tail(order), Tail(rel))
         IN  IF IsNaN(v) THEN rest ELSE Add(Mul(row[Head(order)], v), rest)

\* one row of DataFrame.dot: the sum over the list of cell * value
RECURSIVE dot_row(_, _, _)
dot_row(row, order, rel) ==
    IF order = <<>> THEN Zero
    ELSE Add(Mul(row[Head(order)], Head(rel).Normalized_Correlation),
             dot_row(row, Tail(order), Tail(rel)))

\* DataFrame.dot raises ValueError("matrices are not aligned") when the union of
\* the columns and the index of the Series, which keeps a repeated label, is
\* longer than the columns
dot_raises(order, rel) == Len(rel) > Len(order)

\* the table returned, the list being enumerated in the given order
calculate_drug_scores(df, res, order) ==
    LET rel  == loc_rows(res, order)
        rows == ordered_aff_rows(df, order)
    IN  [d \in {df.data[i][DrugColumn].s : i \in rows} |->
            LET i == CHOOSE j \in rows : df.data[j][DrugColumn].s = d
            IN  dot_row(df.data[i], order, rel)]

(***************************************************************************)
(* correlation_calc.py: ssgsea_score                                       *)
(*                                                                         *)
(* The rank matrix is [index |-> the genes (rows), columns |-> the         *)
(* samples, val |-> gene -> sample -> rank].                               *)
(***************************************************************************)
PowScale == 100

\* x ** 0.25 for a rank x >= 1, rounded down to 1/PowScale
Root4(x) == Num(RootBetween(x * PowScale * PowScale * PowScale * PowScale, 4, 0, 200), PowScale)

\* x ** (e/4) for e = 1 and e = 5: x ** 1.25 is x * x ** 0.25
Pow4(x, e) == IF e = 1 THEN Root4(x) ELSE Mul(Int2Num(x), Root4(x))

\* (sranks ** (e/4)).sum() for one sample: the sum over the rows of sranks
RECURSIVE PowSum(_, _, _, _)
PowSum(rk, rows, smp, e) ==
    IF rows = <<>> THEN Zero
    ELSE Add(Pow4(rk.val[Head(rows)][smp], e), PowSum(rk, Tail(rows), smp, e))

\* expressions.rank(method='max', na_option='bottom'), line 56: within each
\* sample, the rank of a gene is the number of genes expressed no higher
rank(expr) ==
    [expr EXCEPT !.val = [g \in expr.index |-> [smp \in expr.columns |->
        Cardinality({h \in expr.index : expr.val[h][smp] <= expr.val[g][smp]})]]]

\* list(set(genes).intersection(set(ranks.index))); a set has no repeated
\* element, and the sums below do not depend on the order of the list
RowList(S) == CHOOSE q \in Orders(S) : TRUE

\* the common genes taken from the list as it is, repeats kept
common_genes_no_set(rk, gene_list) == SelectSeq(gene_list, LAMBDA g : g \in rk.index)

\* line 26
common_genes(rk, gene_list) == RowList(Range(gene_list) \cap rk.index)

\* an offset that ignores use_old_formula
offset_flag_ignored(rk, common, use_old_formula) == Num(Cardinality(rk.index) + 1, 2)

\* the offset subtracted, lines 36 and 38
offset(rk, common, use_old_formula) ==
    IF use_old_formula
    THEN Num(Cardinality(rk.index) - Len(common) + 1, 2)
    ELSE Num(Cardinality(rk.index) + 1, 2)

\* the early return left out
no_intersection_never(common) == FALSE

\* line 29: if not common_genes
no_intersection(common) == common = <<>>

ssgsea_score(rk, gene_list, use_old_formula) ==
    LET common == common_genes(rk, gene_list)
    IN  IF no_intersection(common)
        THEN [smp \in rk.columns |-> Zero]
        ELSE [smp \in rk.columns |->
                Sub(Div(PowSum(rk, common, smp, 5), PowSum(rk, common, smp, 1)),
                    offset(rk, common, use_old_formula))]

(***************************************************************************)
(* correlation_calc.py: calculate_correlations, normalize_correlation      *)
(*                                                                         *)
(* The cohort table is a function from its column names to the columns,    *)
(* each a list with one value per sample.                                  *)
(***************************************************************************)
PearsonScale == 100

\* np.corrcoef(x, y)[0, 1]: np.cov centres both rows and divides the products
\* by n - 1; corrcoef divides by the square roots of the diagonal
corrcoef(x, y) ==
    LET n    == Len(x)
        mx   == Div(Sum(x), Int2Num(n))
        my   == Div(Sum(y), Int2Num(n))
        dx   == [i \in 1..n |-> Sub(x[i], mx)]
        dy   == [i \in 1..n |-> Sub(y[i], my)]
        cxy  == Div(Sum([i \in 1..n |-> Mul(dx[i], dy[i])]), Int2Num(n - 1))
        cxx  == Div(Sum([i \in 1..n |-> Mul(dx[i], dx[i])]), Int2Num(n - 1))
        cyy  == Div(Sum([i \in 1..n |-> Mul(dy[i], dy[i])]), Int2Num(n - 1))
    IN  IF ~IsNum(cxy) \/ ~IsNum(cxx) \/ ~IsNum(cyy) THEN NaN
        ELSE IF cxx.n = 0 \/ cyy.n = 0 THEN NaN
        ELSE LET r2 == Div(Mul(cxy, cxy), Mul(cxx, cyy))
                 m  == RootBetween((PearsonScale * PearsonScale * r2.n) \div r2.d,
                                   2, 0, PearsonScale)
             IN  Num(IF cxy.n < 0 THEN -m ELSE m, PearsonScale)

\* lines 92-103: the value appended for one name of df_kin['Name']
correlation(gene_name, coh, sig) ==
    IF gene_name \in DOMAIN coh THEN corrcoef(coh[gene_name], sig) ELSE NaN

\* a table of the names found in the cohort only
calculate_correlations_present(kin, coh, sig) ==
    LET present == SelectSeq(kin, LAMBDA g : g \in DOMAIN coh)
    IN  [i \in 1..Len(present) |->
            [Gene |-> present[i], Correlation |-> correlation(present[i], coh, sig)]]

\* lines 89-108: pd.DataFrame({'Gene': df_kin['Name'], 'Correlation': correlations})
calculate_correlations(kin, coh, sig) ==
    [i \in 1..Len(kin) |-> [Gene |-> kin[i], Correlation |-> correlation(kin[i], coh, sig)]]

\* line 141: results['Normalized_Correlation'] = (results['Correlation'] + 1) / 2
normalize_correlation(res) ==
    [i \in DOMAIN res |->
        [Gene |-> res[i].Gene, Correlation |-> res[i].Correlation,
         Normalized_Correlation |-> Div(Add(res[i].Correlation, Int2Num(1)), Int2Num(2))]]

(***************************************************************************)
(* The inputs                                                              *)
(***************************************************************************)
GeneUniverse == {"g1", "g2", "g3"}

SampleSets == {{"s1"}, {"s1", "s2"}}

MaxGenes == 2

MaxKin == 3

\* a correlation table longer than the universe only repeats more keys
MaxRes == Cardinality(GeneUniverse)

MaxAff == 2

\* expression matrices, genes in rows and samples in columns, with as many
\* levels of expression as rows, so that every order and every tie occurs
ExpressionMatrices ==
    UNION {{[index |-> idx, columns |-> cols, val |-> v] :
                v \in [idx -> [cols -> 1..Cardinality(idx)]]} :
           idx \in SUBSET GeneUniverse, cols \in SampleSets}

\* the rank matrices ssgsea_formula passes to ssgsea_score
RankMatrices == {rank(e) : e \in ExpressionMatrices}

DrugNames == <<"d1", "d2">>

NameLabels == {[i \in DOMAIN DrugNames |-> Str(DrugNames[i])]}

\* a drug name may be missing in the file
FileLabels ==
    {l \in [DOMAIN DrugNames -> {NaN} \cup {Str(DrugNames[i]) : i \in DOMAIN DrugNames}] :
        \A i \in DOMAIN DrugNames : l[i] \in {NaN, Str(DrugNames[i])}}

\* affinity tables: the drug names in 'Unnamed: 0', one column per target
AffTables(colsets, cells, labels) ==
    UNION {{[columns |-> cols \cup {DrugColumn},
             data |-> [i \in DOMAIN DrugNames |->
                        [c \in cols \cup {DrugColumn} |->
                            IF c = DrugColumn THEN l[i] ELSE m[i][c]]]] :
                m \in [DOMAIN DrugNames -> [cols -> cells]], l \in labels} :
           cols \in colsets}

AffCells == {NaN} \cup {Int2Num(i) : i \in 0..MaxAff}

EmptyTable == [columns |-> {DrugColumn}, data |-> <<>>]

EmptyRanks == [index |-> {}, columns |-> {}, val |-> <<>>]

\* cohort tables: the sample names in 'Unnamed: 0', g1 and perhaps g2 as
\* columns, g3 never: three samples
ExpressionColumns ==
    {<<Int2Num(1), Int2Num(2), Int2Num(3)>>, <<Int2Num(3), Int2Num(2), Int2Num(1)>>,
     <<Int2Num(2), Int2Num(2), Int2Num(2)>>}

SampleNames == <<Str("s1"), Str("s2"), Str("s3")>>

Cohorts ==
    UNION {{[c \in cols \cup {DrugColumn} |-> IF c = DrugColumn THEN SampleNames ELSE m[c]] :
                m \in [cols -> ExpressionColumns]} :
           cols \in {{"g1"}, {"g1", "g2"}}}

SignatureColumns ==
    {<<Int2Num(1), Int2Num(2), Int2Num(3)>>, <<Num(-1, 2), Int2Num(2), Int2Num(0)>>}

\* correlation tables as normalize_correlation leaves them
CorrelationValues == {NaN, Int2Num(0), Int2Num(1)}

CorrelationTables ==
    {normalize_correlation([i \in DOMAIN r |-> [Gene |-> r[i][1], Correlation |-> r[i][2]]]) :
        r \in SeqsUpTo(GeneUniverse \X CorrelationValues, MaxRes)}

(***************************************************************************)
(* main.py: master_function, from calculate_correlations on                *)
(***************************************************************************)
InitMaster ==
    /\ pc = "calculate_correlations"
    /\ df_kin \in SeqsUpTo(GeneUniverse, MaxKin)
    /\ df_coh \in Cohorts
    /\ signatures \in SignatureColumns
    /\ aff_file \in AffTables({{"g2"}, {"g1", "g3"}}, {NaN, Int2Num(2)}, NameLabels)
    /\ df_aff = aff_file
    /\ results = <<>>
    /\ df_aff_red = EmptyTable
    /\ genes = <<>>
    /\ scores = <<>>
    /\ raised = "none"
    /\ ranks = EmptyRanks
    /\ df_cms_list = <<>>
    /\ score_new = <<>>
    /\ score_old = <<>>
    /\ called = {}

\* line 37: results = calculate_correlations(df_kin, df_coh, signatures); line 40,
\* filter_and_print_correlations, only displays
CalculateCorrelations ==
    /\ pc = "calculate_correlations"
    /\ results' = calculate_correlations(df_kin, df_coh, signatures)
    /\ pc' = "normalize_correlation"
    /\ UNCHANGED <<ranks, df_cms_list, score_new, score_old, df_kin, df_coh, signatures,
                   aff_file, df_aff, df_aff_red, genes, scores, raised, called>>

\* line 43: normalized_results = normalize_correlation(results), the same object
NormalizeCorrelation ==
    /\ pc = "normalize_correlation"
    /\ results' = normalize_correlation(results)
    /\ pc' = "preprocess_affinity_data"
    /\ UNCHANGED <<ranks, df_cms_list, score_new, score_old, df_kin, df_coh, signatures,
                   aff_file, df_aff, df_aff_red, genes, scores, raised, called>>

\* line 46: df_aff_red = preprocess_affinity_data(df_aff)
PreprocessAffinityData ==
    /\ pc = "preprocess_affinity_data"
    /\ df_aff' = preprocess_inplace(df_aff)
    /\ df_aff_red' = preprocess_affinity_data(df_aff)
    /\ pc' = "calculate_drug_scores"
    /\ UNCHANGED <<ranks, df_cms_list, score_new, score_old, df_kin, df_coh, signatures,
                   results, aff_file, genes, scores, raised, called>>

\* line 49: scores = calculate_drug_scores(df_aff_red, normalized_results); the
\* list made of a set comes in any order
CalculateDrugScores ==
    /\ pc = "calculate_drug_scores"
    /\ \E order \in Orders(shared_targets(df_aff_red, results)) :
          /\ genes' = order
          /\ IF dot_raises(order, loc_rows(results, order))
             THEN raised' = "ValueError" /\ scores' = scores
             ELSE raised' = raised /\ scores' = calculate_drug_scores(df_aff_red, results, order)
    /\ pc' = "done"
    /\ UNCHANGED <<ranks, df_cms_list, score_new, score_old, df_kin, df_coh, signatures,
                   results, aff_file, df_aff, df_aff_red, called>>

Next ==
    \/ CalculateCorrelations
    \/ NormalizeCorrelation
    \/ PreprocessAffinityData
    \/ CalculateDrugScores

Spec == InitMaster /\ [][Next]_vars

(***************************************************************************)
(* preprocess_affinity_data on any affinity table                          *)
(***************************************************************************)
InitAff ==
    /\ pc = "preprocess_affinity_data"
    /\ aff_file \in AffTables({{"g1"}, {"g1", "g3"}}, AffCells, FileLabels)
    /\ df_aff = aff_file
    /\ df_kin = <<>>
    /\ df_coh = <<>>
    /\ signatures = <<>>
    /\ results = <<>>
    /\ df_aff_red = EmptyTable
    /\ genes = <<>>
    /\ scores = <<>>
    /\ raised = "none"
    /\ ranks = EmptyRanks
    /\ df_cms_list = <<>>
    /\ score_new = <<>>
    /\ score_old = <<>>
    /\ called = {}

NextAff == PreprocessAffinityData

SpecAff == InitAff /\ [][NextAff]_vars

(***************************************************************************)
(* calculate_drug_scores on any preprocessed affinity table and any        *)
(* normalized correlation table                                            *)
(***************************************************************************)
InitDrug ==
    /\ pc = "calculate_drug_scores"
    /\ aff_file \in AffTables({{}, {"g1"}, {"g1", "g2"}, {"g1", "g2", "g4"}},
                              {NaN, Int2Num(2)}, NameLabels)
    /\ df_aff = preprocess_inplace(aff_file)
    /\ df_aff_red = preprocess_affinity_data(aff_file)
    /\ results \in CorrelationTables
    /\ df_kin = <<>>
    /\ df_coh = <<>>
    /\ signatures = <<>>
    /\ genes = <<>>
    /\ scores = <<>>
    /\ raised = "none"
    /\ ranks = EmptyRanks
    /\ df_cms_list = <<>>
    /\ score_new = <<>>
    /\ score_old = <<>>
    /\ called = {}

NextDrug == CalculateDrugScores

SpecDrug == InitDrug /\ [][NextDrug]_vars

(***************************************************************************)
(* ssgsea_score on any rank matrix and any gene list, both formulas        *)
(***************************************************************************)
InitScore ==
    /\ pc = "ssgsea_score"
    /\ ranks \in RankMatrices
    /\ df_cms_list \in SeqsUpTo(GeneUniverse, MaxGenes)
    /\ score_new = <<>>
    /\ score_old = <<>>
    /\ called = {}
    /\ aff_file = EmptyTable
    /\ df_aff = EmptyTable
    /\ df_aff_red = EmptyTable
    /\ results = <<>>
    /\ df_kin = <<>>
    /\ df_coh = <<>>
    /\ signatures = <<>>
    /\ genes = <<>>
    /\ scores = <<>>
    /\ raised = "none"

\* ssgsea_formula, line 60: ssgsea_score(ranks, geneset, use_old_formula)
SsgseaScore ==
    /\ pc = "ssgsea_score"
    /\ \E use_old_formula \in BOOLEAN :
          /\ called' = called \cup {use_old_formula}
          /\ IF use_old_formula
             THEN /\ score_old' = ssgsea_score(ranks, df_cms_list, TRUE)
                  /\ score_new' = score_new
             ELSE /\ score_new' = ssgsea_score(ranks, df_cms_list, FALSE)
                  /\ score_old' = score_old
    /\ UNCHANGED <<pc, ranks, df_cms_list, df_kin, df_coh, signatures, results, aff_file,
                   df_aff, df_aff_red, genes, scores, raised>>

NextScore == SsgseaScore

SpecScore == InitScore /\ [][NextScore]_vars

(***************************************************************************)
(* Properties                                                              *)
(***************************************************************************)
Returned == pc = "done" /\ raised = "none"

AfterPreprocess == pc \in {"calculate_drug_scores", "done"}

Rows == DOMAIN df_aff_red.data

DrugOf(i) == df_aff_red.data[i][DrugColumn].s

AllDrugs == {DrugOf(i) : i \in Rows}

TargetColumns == df_aff_red.columns \ {DrugColumn}

ResultGenes == {results[k].Gene : k \in DOMAIN results}

Shared == ResultGenes \cap TargetColumns

\* the targets of a drug: the columns where it has an affinity
TargetsOf(i) == {c \in TargetColumns : df_aff_red.data[i][c] # Zero}

NoCommonTarget(i) == TargetsOf(i) \cap ResultGenes = {}

SharedNaN == \E k \in DOMAIN results :
                results[k].Gene \in Shared /\ IsNaN(results[k].Normalized_Correlation)

UniqueKeys == \A j, k \in DOMAIN results : results[j].Gene = results[k].Gene => j = k

\* C1 as stated: a drug of the affinity table that has no target in common with
\* the genes of the correlation table has no row in the table returned.
C1_DrugWithoutCommonTargetAbsent ==
    Returned => \A i \in Rows : NoCommonTarget(i) => DrugOf(i) \notin DOMAIN scores

\* C1, amended: every table calculate_drug_scores returns has one row for every
\* drug of the affinity table; a drug with no target in common with the genes of
\* the correlation table has Score 0 in it (NaN when a shared column has a NaN
\* normalized correlation), it is not left out.
C1_EveryDrugHasARow ==
    Returned =>
        /\ DOMAIN scores = AllDrugs
        /\ \A i \in Rows : NoCommonTarget(i) =>
              scores[DrugOf(i)] = IF SharedNaN THEN NaN ELSE Zero

C1_Witness ==
    /\ Returned
    /\ Shared # {}
    /\ \E i, j \in Rows :
          /\ NoCommonTarget(i)
          /\ DrugOf(i) \in DOMAIN scores
          /\ scores[DrugOf(i)] = Zero
          /\ IsNum(scores[DrugOf(j)]) /\ scores[DrugOf(j)].n > 0

CommonCount == Cardinality(Range(df_cms_list) \cap ranks.index)

\* C2 as stated: with a non-empty intersection, for every sample the new-formula
\* score is the legacy-formula score plus (common_gene_count - 1) / 2.
C2_NewIsOldPlusHalfCountMinusOne ==
    (called = BOOLEAN /\ CommonCount > 0) =>
        \A smp \in ranks.columns :
            score_new[smp] = Add(score_old[smp], Num(CommonCount - 1, 2))

\* C2, amended: with a non-empty intersection, for every sample the new-formula
\* score is the legacy-formula score minus common_gene_count / 2.
C2_NewIsOldMinusHalfCount ==
    (called = BOOLEAN /\ CommonCount > 0) =>
        \A smp \in ranks.columns :
            score_new[smp] = Sub(score_old[smp], Num(CommonCount, 2))

C2_Witness ==
    /\ called = BOOLEAN
    /\ CommonCount = 2
    /\ Cardinality(ranks.index) = 3
    /\ Cardinality(ranks.columns) = 2
    /\ \E smp \in ranks.columns : score_new[smp] = Sub(score_old[smp], Int2Num(1))

\* C3: when the gene list shares no gene with the rows of the rank matrix (the
\* empty list included), ssgsea_score returns under both formulas one entry per
\* sample column, each 0 and none NaN, and raises nothing.
C3_NoCommonGeneAllZero ==
    (Range(df_cms_list) \cap ranks.index = {}) =>
        /\ raised = "none"
        /\ (FALSE \in called =>
              /\ DOMAIN score_new = ranks.columns
              /\ \A smp \in ranks.columns : score_new[smp] = Zero)
        /\ (TRUE \in called =>
              /\ DOMAIN score_old = ranks.columns
              /\ \A smp \in ranks.columns : score_old[smp] = Zero)

C3_Witness ==
    /\ called = BOOLEAN
    /\ df_cms_list # <<>>
    /\ ranks.index # {}
    /\ Range(df_cms_list) \cap ranks.index = {}
    /\ Cardinality(ranks.columns) = 2
    /\ \A smp \in ranks.columns : score_new[smp] = Zero /\ score_old[smp] = Zero

\* the sum over a set T of columns of cell * normalized correlation, the
\* correlation being that of the one row keyed by the column
NormalizedOf(t) == results[CHOOSE k \in DOMAIN results : results[k].Gene = t].Normalized_Correlation

RECURSIVE WeightedSum(_, _)
WeightedSum(i, T) ==
    IF T = {} THEN Zero
    ELSE LET t == CHOOSE x \in T : TRUE
         IN  Add(WeightedSum(i, T \ {t}), Mul(df_aff_red.data[i][t], NormalizedOf(t)))

\* the tables cut down to the shared targets
SharedColumnsOnly ==
    [columns |-> Shared \cup {DrugColumn},
     data |-> [i \in Rows |-> [c \in Shared \cup {DrugColumn} |-> df_aff_red.data[i][c]]]]

SharedRowsOnly == SelectSeq(results, LAMBDA r : r.Gene \in Shared)

Less(a, b) == a.n * b.d < b.n * a.d

Leq(a, b) == a.n * b.d <= b.n * a.d

\* c is the Pearson correlation of x and y, to 1/PearsonScale: the textbook
\* formula (n Sxy - Sx Sy) / sqrt((n Sxx - Sx^2) (n Syy - Sy^2))
IsPearson(c, x, y) ==
    LET n   == Int2Num(Len(x))
        sx  == Sum(x)
        sy  == Sum(y)
        sxy == Sum([i \in DOMAIN x |-> Mul(x[i], y[i])])
        sxx == Sum([i \in DOMAIN x |-> Mul(x[i], x[i])])
        syy == Sum([i \in DOMAIN x |-> Mul(y[i], y[i])])
        cov == Sub(Mul(n, sxy), Mul(sx, sy))
        vx  == Sub(Mul(n, sxx), Mul(sx, sx))
        vy  == Sub(Mul(n, syy), Mul(sy, sy))
        vv  == Mul(vx, vy)
        mag == Num(Abs(c.n), c.d)
        up  == Add(mag, Num(1, PearsonScale))
    IN  IF vv.n = 0 THEN IsNaN(c)
        ELSE /\ IsNum(c)
             /\ Leq(mag, Int2Num(1))
             /\ c.n > 0 => cov.n > 0
             /\ c.n < 0 => cov.n < 0
             /\ Leq(Mul(Mul(mag, mag), vv), Mul(cov, cov))
             /\ Less(Mul(cov, cov), Mul(Mul(up, up), vv))

\* C4: calculate_correlations returns one row per entry of the candidate list, in
\* the order of the list; the Correlation is NaN for a gene that is no column of
\* the cohort table and the Pearson correlation of the gene's column with the
\* signature otherwise; the call completes whatever genes are absent, and a row
\* depends on its own gene only.
C4_OneRowPerCandidate ==
    pc # "calculate_correlations" =>
        /\ pc = "normalize_correlation" => raised = "none"
        /\ Len(results) = Len(df_kin)
        /\ \A i \in DOMAIN df_kin :
              /\ results[i].Gene = df_kin[i]
              /\ IF df_kin[i] \in DOMAIN df_coh
                 THEN IsPearson(results[i].Correlation, df_coh[df_kin[i]], signatures)
                 ELSE IsNaN(results[i].Correlation)

C4_Witness ==
    /\ pc = "normalize_correlation"
    /\ df_kin = <<"g3", "g1", "g3">>
    /\ df_coh["g1"] = <<Int2Num(3), Int2Num(2), Int2Num(1)>>
    /\ signatures = <<Int2Num(1), Int2Num(2), Int2Num(3)>>
    /\ results = <<[Gene |-> "g3", Correlation |-> NaN],
                   [Gene |-> "g1", Correlation |-> Int2Num(-1)],
                   [Gene |-> "g3", Correlation |-> NaN]>>

\* C5: a candidate list with a repeated gene is tolerated: the three calls
\* complete without raising and give one Score per drug, also when the repeated
\* gene is a target column of the affinity table.
C5_DuplicatesTolerated ==
    (pc = "done" /\ \E i, j \in DOMAIN df_kin : i # j /\ df_kin[i] = df_kin[j]) =>
        /\ raised = "none"
        /\ DOMAIN scores = AllDrugs

\* C6: the table preprocess_affinity_data returns has, cell by cell, 0 where the
\* input was NaN or 0, 1/v where it was a nonzero number v, the input itself
\* where it was no number; no cell is infinite.
C6_ReciprocalOrZero ==
    AfterPreprocess =>
        /\ df_aff_red.columns = aff_file.columns
        /\ DOMAIN df_aff_red.data = DOMAIN aff_file.data
        /\ \A i \in DOMAIN aff_file.data : \A c \in aff_file.columns :
              LET in  == aff_file.data[i][c]
                  out == df_aff_red.data[i][c]
              IN  /\ out.kind # "inf"
                  /\ (IsNaN(in) \/ in = Zero) => out = Zero
                  /\ (IsNum(in) /\ in.n # 0) => (IsNum(out) /\ Mul(out, in) = Int2Num(1))
                  /\ in.kind = "str" => out = in

C6_Witness ==
    /\ AfterPreprocess
    /\ \E i, j, k \in DOMAIN aff_file.data : \E c, e \in aff_file.columns :
          /\ IsNaN(aff_file.data[i][c]) /\ df_aff_red.data[i][c] = Zero
          /\ aff_file.data[j][e] = Zero /\ df_aff_red.data[j][e] = Zero
          /\ aff_file.data[k][e] = Int2Num(2) /\ df_aff_red.data[k][e] = Num(1, 2)
          /\ df_aff_red.data[k][DrugColumn].kind = "str"

\* C7 as stated: after the call the caller's table holds the inverse affinities:
\* it has the contents of the table returned.
C7_CallerTableIsInverse == AfterPreprocess => df_aff = df_aff_red

\* C7, amended: the call changes the caller's table only where a value was
\* missing, which becomes 0; every other entry of the caller's table keeps its
\* value, and the reciprocals are in the table returned only.
C7_CallerTableOnlyLosesNaN ==
    AfterPreprocess =>
        \A i \in DOMAIN aff_file.data : \A c \in aff_file.columns :
            /\ df_aff.data[i][c] = IF IsNaN(aff_file.data[i][c]) THEN Zero ELSE aff_file.data[i][c]
            /\ (IsNum(df_aff.data[i][c]) /\ df_aff.data[i][c].n # 0) =>
                  Mul(df_aff_red.data[i][c], df_aff.data[i][c]) = Int2Num(1)

C7_Witness ==
    /\ pc = "calculate_drug_scores"
    /\ \E i, j \in DOMAIN aff_file.data : \E c \in aff_file.columns :
          /\ aff_file.data[i][c] = Int2Num(2)
          /\ df_aff.data[i][c] = Int2Num(2)
          /\ df_aff_red.data[i][c] = Num(1, 2)
          /\ IsNaN(aff_file.data[j][c])
          /\ df_aff.data[j][c] = Zero

\* C8: with unique gene keys, no NaN and a shared target, the Score of each drug
\* is the sum over exactly the shared targets of inverse affinity times the
\* normalized correlation of the same target; the order in which the
\* intersection is listed, and the columns and rows outside it, change nothing.
C8_ScoreIsSumOverSharedTargets ==
    (pc = "done" /\ UniqueKeys /\ Shared # {}
        /\ \A k \in DOMAIN results : ~IsNaN(results[k].Normalized_Correlation)) =>
        /\ raised = "none"
        /\ DOMAIN scores = AllDrugs
        /\ \A i \in Rows : scores[DrugOf(i)] = WeightedSum(i, Shared)
        /\ \A order \in Orders(Shared) :
              /\ calculate_drug_scores(df_aff_red, results, order) = scores
              /\ calculate_drug_scores(SharedColumnsOnly, SharedRowsOnly, order) = scores

C8_Witness ==
    /\ Returned
    /\ UniqueKeys
    /\ \A k \in DOMAIN results : ~IsNaN(results[k].Normalized_Correlation)
    /\ Shared = {"g1", "g2"}
    /\ "g4" \in TargetColumns
    /\ "g3" \in ResultGenes
    /\ genes = <<"g2", "g1">>
    /\ results[1].Gene = "g1"
    /\ \E i, j \in Rows : scores[DrugOf(i)] = Num(3, 4) /\ scores[DrugOf(j)] = Num(1, 4)

\* the gene lists got from a list by reordering it, by repeating one of its
\* genes, or by adding a gene that is no row of the rank matrix
Variants(gene_list) ==
    LET outside == (GeneUniverse \cup {"g9"}) \ ranks.index
    IN  {[i \in DOMAIN gene_list |-> gene_list[p[i]]] : p \in Orders(DOMAIN gene_list)}
        \cup {Append(gene_list, g) : g \in Range(gene_list) \cup outside}
        \cup {<<g>> \o gene_list : g \in Range(gene_list) \cup outside}

\* the sum of x ** (e/4) over the ranks a sample has for a set of genes
RECURSIVE SetPowSum(_, _, _)
SetPowSum(G, smp, e) ==
    IF G = {} THEN Zero
    ELSE LET g == CHOOSE x \in G : TRUE
         IN  Add(SetPowSum(G \ {g}, smp, e), Pow4(ranks.val[g][smp], e))

\* C9: the score depends on the gene list only through its set of common genes:
\* reordering the list, repeating a gene, adding genes that are no rows of the
\* rank matrix leave every score as it is, under both formulas; and the score is
\* the ratio of the two sums over the common genes minus (N + 1) / 2, resp.
\* (N - common + 1) / 2, N being the number of rows of the whole rank matrix.
C9_ScoreDependsOnCommonSetOnly ==
    LET common == Range(df_cms_list) \cap ranks.index
        ratio(smp) == Div(SetPowSum(common, smp, 5), SetPowSum(common, smp, 1))
        N == Cardinality(ranks.index)
    IN  /\ FALSE \in called =>
              /\ \A v \in Variants(df_cms_list) : ssgsea_score(ranks, v, FALSE) = score_new
              /\ common # {} => \A smp \in ranks.columns :
                    Add(score_new[smp], Num(N + 1, 2)) = ratio(smp)
        /\ TRUE \in called =>
              /\ \A v \in Variants(df_cms_list) : ssgsea_score(ranks, v, TRUE) = score_old
              /\ common # {} => \A smp \in ranks.columns :
                    Add(score_old[smp], Num(N - Cardinality(common) + 1, 2)) = ratio(smp)

C9_Witness ==
    /\ called = BOOLEAN
    /\ Len(df_cms_list) = 2
    /\ df_cms_list[1] = df_cms_list[2]
    /\ df_cms_list[1] \in ranks.index
    /\ Cardinality(ranks.index) = 3
    /\ Cardinality(ranks.columns) = 2
    /\ \E smp \in ranks.columns :
          /\ ranks.val[df_cms_list[1]][smp] = 2
          /\ score_new[smp] = Int2Num(0)
          /\ score_old[smp] = Num(1, 2)


\* the candidate genes that are no cohort column and are a target column
AbsentTargets == {g \in Range(df_kin) : g \notin DOMAIN df_coh /\ g \in TargetColumns}

\* C10: a candidate gene that is absent from the cohort and is a target column
\* has a NaN correlation and a NaN normalized correlation and is in the
\* intersection; the Score of every drug in the table returned is then NaN, also
\* of a drug whose inverse affinity to the gene is 0; a Score is not NaN only if
\* no shared target has a NaN normalized correlation.  (A list that also repeats
\* a shared target ends in the ValueError of C5 and returns no table.)
C10_NaNReachesEveryScore ==
    pc = "done" =>
        /\ \A k \in DOMAIN results : results[k].Gene \in AbsentTargets =>
              /\ IsNaN(results[k].Correlation)
              /\ IsNaN(results[k].Normalized_Correlation)
              /\ results[k].Gene \in Range(genes)
        /\ (AbsentTargets # {} /\ raised = "none") =>
              /\ DOMAIN scores = AllDrugs
              /\ \A d \in AllDrugs : IsNaN(scores[d])
        /\ \A d \in DOMAIN scores : ~IsNaN(scores[d]) => ~SharedNaN

C10_Witness ==
    /\ Returned
    /\ \E g \in AbsentTargets : \E i, j \in Rows : \E c \in TargetColumns :
          /\ df_aff_red.data[i][g] = Zero
          /\ df_aff_red.data[i][c] # Zero
          /\ df_aff_red.data[j][g] # Zero
          /\ IsNaN(scores[DrugOf(i)])
          /\ IsNaN(scores[DrugOf(j)])

====
